---- MODULE Spec2Model ----
(***************************************************************************)
(* nu_plugin_ulid: the two plugin commands "random ulid" and "parse ulid"  *)
(* (src/src/plugin.rs) over the ULID codec they call.                      *)
(*                                                                         *)
(* Representation.  An unsigned integer of 16*k bits is a sequence of k    *)
(* limbs, each in 0..65535, most significant limb first: a u128 has 8      *)
(* limbs, a u64 (and an i64, in two's complement) has 4.  A string is a    *)
(* sequence of one-character strings.  A SystemTime is a record            *)
(* [before_epoch, millis]: whether it lies before UNIX_EPOCH, and the      *)
(* whole milliseconds between it and UNIX_EPOCH as a u128.                 *)
(***************************************************************************)
EXTENDS Integers, Sequences, FiniteSets, TLC

VARIABLES stage, call, out, gen, prev

vars == <<stage, call, out, gen, prev>>

---------------------------------------------------------------------------
(* Fixed-width integers                                                    *)

LIMB == 65536

Pow2(n) == 2 ^ n

\* the sequence <<F(1), ..., F(n)>>, every element computed once
RECURSIVE Tabulate(_, _)
Tabulate(F(_), n) == IF n = 0 THEN <<>> ELSE Append(Tabulate(F, n - 1), F(n))

\* An integer literal n < 2^31 as an unsigned integer of k limbs.
UInt(n, k) ==
    LET limb(i) == IF i = k THEN n % LIMB ELSE IF i = k - 1 THEN n \div LIMB ELSE 0
    IN  Tabulate(limb, k)

\* u128::MAX
U128_MAX == <<65535, 65535, 65535, 65535, 65535, 65535, 65535, 65535>>

IsZero(x) == \A i \in 1..Len(x) : x[i] = 0

RECURSIVE LimbAnd(_, _)
LimbAnd(a, b) == IF a = 0 \/ b = 0 THEN 0
                 ELSE ((a % 2) * (b % 2)) + (2 * LimbAnd(a \div 2, b \div 2))

RECURSIVE LimbOr(_, _)
LimbOr(a, b) == IF a = 0 THEN b
                ELSE IF b = 0 THEN a
                ELSE (IF a % 2 = 1 \/ b % 2 = 1 THEN 1 ELSE 0)
                     + (2 * LimbOr(a \div 2, b \div 2))

\* x & y and x | y, on integers of the same width
BitAnd(x, y) ==
    LET limb(i) == LimbAnd(x[i], y[i])
    IN  Tabulate(limb, Len(x))

BitOr(x, y) ==
    LET limb(i) == LimbOr(x[i], y[i])
    IN  Tabulate(limb, Len(x))

\* x << n within x's width: the bits shifted out at the top are lost
Shl(x, n) ==
    LET w == Len(x)
        q == n \div 16
        r == n % 16
        y(i) == IF i + q <= w THEN x[i + q] ELSE 0
        limb(i) == ((y(i) * Pow2(r)) % LIMB) + (y(i + 1) \div Pow2(16 - r))
    IN  Tabulate(limb, w)

\* x >> n
Shr(x, n) ==
    LET w == Len(x)
        q == n \div 16
        r == n % 16
        y(i) == IF i - q >= 1 THEN x[i - q] ELSE 0
        limb(i) == (y(i) \div Pow2(r)) + ((y(i - 1) % Pow2(r)) * Pow2(16 - r))
    IN  Tabulate(limb, w)

\* the cast `as u64` of a u128: the low 64 bits
as_u64(x) == SubSeq(x, Len(x) - 3, Len(x))

\* the cast `as u128` of a u64: zero extension
u64_as_u128(x) == <<0, 0, 0, 0>> \o x

\* the cast `as u128` of an i64: sign extension
i64_as_u128(x) ==
    IF x[1] >= LIMB \div 2 THEN <<65535, 65535, 65535, 65535>> \o x ELSE <<0, 0, 0, 0>> \o x

\* x / d and x % d for a small divisor d, limb by limb from the top
RECURSIVE DivModFrom(_, _, _, _, _)
DivModFrom(x, d, i, rem, quot) ==
    IF i > Len(x) THEN [quot |-> quot, rem |-> rem]
    ELSE LET cur == (rem * LIMB) + x[i]
         IN  DivModFrom(x, d, i + 1, cur % d, Append(quot, cur \div d))

DivMod(x, d) == DivModFrom(x, d, 1, 0, <<>>)

\* x * m + a for small m and a, limb by limb from the bottom; carry is what
\* does not fit x's width
RECURSIVE MulAddFrom(_, _, _, _, _)
MulAddFrom(x, m, i, carry, acc) ==
    IF i < 1 THEN [val |-> acc, carry |-> carry]
    ELSE LET cur == (x[i] * m) + carry
         IN  MulAddFrom(x, m, i - 1, cur \div LIMB, <<cur % LIMB>> \o acc)

MulAdd(x, m, a) == MulAddFrom(x, m, Len(x), a, <<>>)

---------------------------------------------------------------------------
(* Characters and the standard library's decimal conversions               *)

DIGITS == <<"0", "1", "2", "3", "4", "5", "6", "7", "8", "9">>

IndexOf(seq, c) == IF \E i \in 1..Len(seq) : seq[i] = c
                   THEN CHOOSE i \in 1..Len(seq) : seq[i] = c
                   ELSE 0

Ok(v) == [tag |-> "Ok", val |-> v, label |-> "", msg |-> ""]

Err(label, msg) == [tag |-> "Err", val |-> <<>>, label |-> label, msg |-> msg]

\* the process aborted (a panic)
Panic == [tag |-> "Panic", val |-> <<>>, label |-> "", msg |-> ""]

\* nothing was returned: the function was not called
NotCalled == [tag |-> "None", val |-> <<>>, label |-> "", msg |-> ""]

\* u128's Display: decimal, no leading zeros, "0" for zero
RECURSIVE u128_to_string_from(_, _)
u128_to_string_from(x, acc) ==
    IF IsZero(x) THEN acc
    ELSE LET dm == DivMod(x, 10)
         IN  u128_to_string_from(dm.quot, <<DIGITS[dm.rem + 1]>> \o acc)

u128_to_string(x) == IF IsZero(x) THEN <<"0">> ELSE u128_to_string_from(x, <<>>)

\* str::parse::<u128>: an optional "+", then decimal digits accumulated with
\* checked_mul and checked_add
RECURSIVE parse_u128_from(_, _, _)
parse_u128_from(s, i, result) ==
    IF i > Len(s) THEN Ok(result)
    ELSE LET x == IndexOf(DIGITS, s[i])
             r == MulAdd(result, 10, x - 1)
         IN  IF x = 0 THEN Err("ParseIntError", "InvalidDigit")
             ELSE IF r.carry # 0 THEN Err("ParseIntError", "PosOverflow")
             ELSE parse_u128_from(s, i + 1, r.val)

parse_u128(s) ==
    IF s = <<>> THEN Err("ParseIntError", "Empty")
    ELSE IF s = <<"+">> \/ s = <<"-">> THEN Err("ParseIntError", "InvalidDigit")
    ELSE parse_u128_from(IF s[1] = "+" THEN Tail(s) ELSE s, 1, UInt(0, 8))

---------------------------------------------------------------------------
(* The ULID codec (crate ulid)                                             *)

TIME_BITS == 48

RAND_BITS == 80

ULID_LEN == 26

ALPHABET == <<"0", "1", "2", "3", "4", "5", "6", "7", "8", "9",
              "A", "B", "C", "D", "E", "F", "G", "H", "J", "K",
              "M", "N", "P", "Q", "R", "S", "T", "V", "W", "X", "Y", "Z">>

LOWER == <<"0", "1", "2", "3", "4", "5", "6", "7", "8", "9",
           "a", "b", "c", "d", "e", "f", "g", "h", "j", "k",
           "m", "n", "p", "q", "r", "s", "t", "v", "w", "x", "y", "z">>

NO_VALUE == 255

\* the decoding table: the digit of a character of the alphabet in either
\* case, NO_VALUE for every other character
LOOKUP(c) == IF IndexOf(ALPHABET, c) # 0 THEN IndexOf(ALPHABET, c) - 1
             ELSE IF IndexOf(LOWER, c) # 0 THEN IndexOf(LOWER, c) - 1
             ELSE NO_VALUE

\* (1 << n) - 1 as a u128
bitmask(n) ==
    LET limb(i) == IF i > 8 - n \div 16 THEN LIMB - 1 ELSE 0
    IN  Tabulate(limb, 8)

UNIX_EPOCH == [before_epoch |-> FALSE, millis |-> UInt(0, 8)]

\* Ulid::from_parts(timestamp_ms: u64, random: u128)
from_parts(timestamp_ms, random) ==
    LET time_part == BitAnd(u64_as_u128(timestamp_ms), bitmask(TIME_BITS))
        rand_part == BitAnd(random, bitmask(RAND_BITS))
    IN  BitOr(Shl(time_part, RAND_BITS), rand_part)

\* Ulid::from_datetime(datetime), the random source yielding the u16 r16 and
\* then the u64 r64; a time before the epoch counts as the epoch
from_datetime(datetime, r16, r64) ==
    LET timestamp == IF datetime.before_epoch THEN UInt(0, 8) ELSE datetime.millis
        timebits == as_u64(BitAnd(timestamp, bitmask(TIME_BITS)))
        msb == BitOr(Shl(timebits, 16), <<0, 0, 0>> \o r16)
    IN  BitOr(Shl(u64_as_u128(msb), 64), u64_as_u128(r64))

\* Ulid::timestamp_ms
timestamp_ms(ulid) == as_u64(Shr(ulid, RAND_BITS))

\* Ulid::random
random(ulid) == BitAnd(ulid, bitmask(RAND_BITS))

\* Ulid::datetime
datetime(ulid) == [before_epoch |-> FALSE, millis |-> u64_as_u128(timestamp_ms(ulid))]

\* Ulid's Display (base32 encode): character ULID_LEN - i is the digit
\* (value >> 5*i) & 0x1f
to_string(ulid) ==
    LET char(p) == ALPHABET[LimbAnd(Shr(ulid, 5 * (ULID_LEN - p))[8], 31) + 1]
    IN  Tabulate(char, ULID_LEN)

\* Ulid's FromStr (base32 decode): the value of the first i characters,
\* value = (value << 5) | digit for each one in turn
RECURSIVE decode_upto(_, _)
decode_upto(encoded, i) ==
    IF i = 0 THEN Ok(UInt(0, 8))
    ELSE LET value == decode_upto(encoded, i - 1)
             val == LOOKUP(encoded[i])
         IN  IF value.tag # "Ok" THEN value
             ELSE IF val = NO_VALUE THEN Err("DecodeError", "InvalidChar")
             ELSE Ok(BitOr(Shl(value.val, 5), UInt(val, 8)))

from_string(encoded) ==
    IF Len(encoded) # ULID_LEN THEN Err("DecodeError", "InvalidLength")
    ELSE decode_upto(encoded, ULID_LEN)

---------------------------------------------------------------------------
(* Host values (nu_protocol::Value) and options                            *)

VNothing == [type |-> "nothing", val |-> <<>>]

VDate(t) == [type |-> "date", val |-> t]

VString(s) == [type |-> "string", val |-> s]

VInt(i) == [type |-> "int", val |-> i]

VBool(b) == [type |-> "bool", val |-> b]

None(placeholder) == [some |-> FALSE, v |-> placeholder]

Some(v) == [some |-> TRUE, v |-> v]

\* a record value with an optional "timestamp" and an optional "random" field
VRecord(ts, rnd) == [type |-> "record", val |-> [timestamp |-> ts, random |-> rnd]]

K_TS == "timestamp"

K_RND == "random"

\* val.get(key) on a record value
RecordGet(val, key) == IF key = K_TS THEN val.timestamp ELSE val.random

\* Value::as_date
as_date(v) == IF v.type = "date" THEN Ok(v.val) ELSE Err("ShellError", "CantConvert")

\* Value::coerce_str
coerce_str(v) == IF v.type = "string" THEN Ok(v.val) ELSE Err("ShellError", "CantConvert")

---------------------------------------------------------------------------
(* random ulid                                                             *)

Random == [kind |-> "Random", val |-> UInt(0, 8)]

Set(r) == [kind |-> "Set", val |-> r]

Zeros == [kind |-> "Zeros", val |-> UInt(0, 8)]

Ones == [kind |-> "Ones", val |-> UInt(0, 8)]

\* selected_randomness with the two flags' arms exchanged
selected_randomness_swapped(zeroed, oned, input) ==
    IF zeroed /\ oned THEN Err("Flag error", "Cannot set --zeroed and --oned at the same time")
    ELSE IF zeroed THEN Ok(Ones)
    ELSE IF oned THEN Ok(Zeros)
    ELSE IF ~input.some THEN Ok(Random)
    ELSE IF input.v.type = "string"
         THEN LET r == parse_u128(input.v.val)
              IN  IF r.tag = "Ok" THEN Ok(Set(r.val)) ELSE Err("Invalid number", r.msg)
    ELSE IF input.v.type = "int" THEN Ok(Set(i64_as_u128(input.v.val)))
    ELSE Err("Invalid number", "is not a valid number")

\* selected_randomness with val.parse::<u128>().unwrap_or_default()
selected_randomness_lenient(zeroed, oned, input) ==
    IF zeroed /\ oned THEN Err("Flag error", "Cannot set --zeroed and --oned at the same time")
    ELSE IF zeroed THEN Ok(Zeros)
    ELSE IF oned THEN Ok(Ones)
    ELSE IF ~input.some THEN Ok(Random)
    ELSE IF input.v.type = "string"
         THEN LET r == parse_u128(input.v.val)
              IN  IF r.tag = "Ok" THEN Ok(Set(r.val)) ELSE Ok(Set(UInt(0, 8)))
    ELSE IF input.v.type = "int" THEN Ok(Set(i64_as_u128(input.v.val)))
    ELSE Err("Invalid number", "is not a valid number")

\* RandomUlid::selected_randomness(call, input), input an Option<&Value>
selected_randomness(zeroed, oned, input) ==
    IF zeroed /\ oned THEN Err("Flag error", "Cannot set --zeroed and --oned at the same time")
    ELSE IF zeroed THEN Ok(Zeros)
    ELSE IF oned THEN Ok(Ones)
    ELSE IF ~input.some THEN Ok(Random)
    ELSE IF input.v.type = "string"
         THEN LET r == parse_u128(input.v.val)
              IN  IF r.tag = "Ok" THEN Ok(Set(r.val)) ELSE Err("Invalid number", r.msg)
    ELSE IF input.v.type = "int" THEN Ok(Set(i64_as_u128(input.v.val)))
    ELSE Err("Invalid number", "is not a valid number")

\* unix_millis with subsec_millis() for as_millis()
unix_millis_subsec(timestamp, now) ==
    LET t == IF timestamp.some THEN timestamp.v ELSE now
    IN  IF t.before_epoch THEN Panic ELSE Ok(UInt(DivMod(t.millis, 1000).rem, 4))

\* unix_millis(timestamp), SystemTime::now() returning now
unix_millis(timestamp, now) ==
    LET t == IF timestamp.some THEN timestamp.v ELSE now
    IN  IF t.before_epoch THEN Panic ELSE Ok(as_u64(t.millis))

\* generate with u64::MAX as u128 for u128::MAX
generate_ones_u64(timestamp, rnd, now, rng) ==
    IF rnd.kind = "Random"
    THEN Ok(from_datetime(IF timestamp.some THEN timestamp.v ELSE now, rng.r16, rng.r64))
    ELSE LET ms == unix_millis(timestamp, now)
         IN  IF ms.tag = "Panic" THEN Panic
             ELSE IF rnd.kind = "Set" THEN Ok(from_parts(ms.val, rnd.val))
             ELSE IF rnd.kind = "Zeros" THEN Ok(from_parts(ms.val, UInt(0, 8)))
             ELSE Ok(from_parts(ms.val, <<0, 0, 0, 0, 65535, 65535, 65535, 65535>>))

\* generate with Ulid::from(r) for a fixed payload, the timestamp left out
generate_set_raw(timestamp, rnd, now, rng) ==
    IF rnd.kind = "Random"
    THEN Ok(from_datetime(IF timestamp.some THEN timestamp.v ELSE now, rng.r16, rng.r64))
    ELSE LET ms == unix_millis(timestamp, now)
         IN  IF ms.tag = "Panic" THEN Panic
             ELSE IF rnd.kind = "Set" THEN Ok(rnd.val)
             ELSE IF rnd.kind = "Zeros" THEN Ok(from_parts(ms.val, UInt(0, 8)))
             ELSE Ok(from_parts(ms.val, U128_MAX))

\* RandomUlid::generate(timestamp, random); the clock reads now and the
\* random source yields rng.r16 and rng.r64
generate(timestamp, rnd, now, rng) ==
    IF rnd.kind = "Random"
    THEN Ok(from_datetime(IF timestamp.some THEN timestamp.v ELSE now, rng.r16, rng.r64))
    ELSE LET ms == unix_millis(timestamp, now)
         IN  IF ms.tag = "Panic" THEN Panic
             ELSE IF rnd.kind = "Set" THEN Ok(from_parts(ms.val, rnd.val))
             ELSE IF rnd.kind = "Zeros" THEN Ok(from_parts(ms.val, UInt(0, 8)))
             ELSE Ok(from_parts(ms.val, U128_MAX))

\* the match of RandomUlid::run on its input: the (timestamp, random) pair
RandomUlid_args(zeroed, oned, input) ==
    IF input.type = "nothing"
    THEN LET r == selected_randomness(zeroed, oned, None(VNothing))
         IN  IF r.tag = "Ok" THEN Ok([timestamp |-> None(UNIX_EPOCH), random |-> r.val]) ELSE r
    ELSE IF input.type = "date"
    THEN LET r == selected_randomness(zeroed, oned, None(VNothing))
         IN  IF r.tag = "Ok" THEN Ok([timestamp |-> Some(input.val), random |-> r.val]) ELSE r
    ELSE IF input.type = "record"
    THEN LET f == RecordGet(input.val, K_TS)
             ts == IF f.some THEN as_date(f.v) ELSE Ok(UNIX_EPOCH)
             r == selected_randomness(zeroed, oned, RecordGet(input.val, K_RND))
         IN  IF ts.tag # "Ok" THEN ts
             ELSE IF r.tag # "Ok" THEN r
             ELSE Ok([timestamp |-> IF f.some THEN Some(ts.val) ELSE None(UNIX_EPOCH),
                      random |-> r.val])
    ELSE Err("Invalid input", "Input type is not supported")

\* RandomUlid::run with the Ulid's u128 printed (ulid.0.to_string())
RandomUlid_run_decimal(zeroed, oned, input, now, rng) ==
    LET a == RandomUlid_args(zeroed, oned, input)
    IN  IF a.tag # "Ok" THEN a
        ELSE LET u == generate(a.val.timestamp, a.val.random, now, rng)
             IN  IF u.tag = "Panic" THEN Panic ELSE Ok(VString(u128_to_string(u.val)))

\* RandomUlid::run
RandomUlid_run(zeroed, oned, input, now, rng) ==
    LET a == RandomUlid_args(zeroed, oned, input)
    IN  IF a.tag # "Ok" THEN a
        ELSE LET u == generate(a.val.timestamp, a.val.random, now, rng)
             IN  IF u.tag = "Panic" THEN Panic ELSE Ok(VString(to_string(u.val)))

---------------------------------------------------------------------------
(* parse ulid                                                              *)

\* ParseUlid::run with the whole u128 printed as the payload (ulid.0 for
\* ulid.random())
ParseUlid_run_whole(input) ==
    LET s == coerce_str(input)
        ulid == from_string(s.val)
    IN  IF s.tag # "Ok" THEN s
        ELSE IF ulid.tag # "Ok" THEN Err("Failed to parse ulid", ulid.msg)
        ELSE Ok(VRecord(Some(VDate(datetime(ulid.val))),
                        Some(VString(u128_to_string(ulid.val)))))

\* ParseUlid::run with parse::<Ulid>().unwrap_or_default()
ParseUlid_run_default(input) ==
    LET s == coerce_str(input)
        ulid == from_string(s.val)
        u == IF ulid.tag = "Ok" THEN ulid.val ELSE UInt(0, 8)
    IN  IF s.tag # "Ok" THEN s
        ELSE Ok(VRecord(Some(VDate(datetime(u))), Some(VString(u128_to_string(random(u))))))

\* ParseUlid::run
ParseUlid_run(input) ==
    LET s == coerce_str(input)
        ulid == from_string(s.val)
    IN  IF s.tag # "Ok" THEN s
        ELSE IF ulid.tag # "Ok" THEN Err("Failed to parse ulid", ulid.msg)
        ELSE Ok(VRecord(Some(VDate(datetime(ulid.val))),
                        Some(VString(u128_to_string(random(ulid.val))))))

---------------------------------------------------------------------------
(* The plugin                                                              *)

\* Plugin::run for UlidPlugin: dispatch on the command name
Plugin_run(name, zeroed, oned, input, now, rng) ==
    IF name = "random ulid" THEN RandomUlid_run(zeroed, oned, input, now, rng)
    ELSE IF name = "parse ulid" THEN ParseUlid_run(input)
    ELSE Err("Plugin call with wrong name signature", "")

---------------------------------------------------------------------------
(* Inputs                                                                  *)

MaxStages == 3

NTimes == 5

NPayloads == 5

NTexts == 7

NNow == 2

NRng == 2

Millis(limbs) == [before_epoch |-> FALSE, millis |-> limbs]

\* 2024-03-19T11:46:00Z (1710848760000 ms), the epoch, 2^48 - 1 ms, 2^48 ms,
\* one second before the epoch, 2^64 + 5 ms, 1710848760001 ms
TimeSamples ==
    << Millis(<<0, 0, 0, 0, 0, 398, 22152, 22720>>),
       Millis(UInt(0, 8)),
       Millis(<<0, 0, 0, 0, 0, 65535, 65535, 65535>>),
       Millis(<<0, 0, 0, 0, 1, 0, 0, 0>>),
       [before_epoch |-> TRUE, millis |-> UInt(1000, 8)],
       Millis(<<0, 0, 0, 1, 0, 0, 0, 5>>),
       Millis(<<0, 0, 0, 0, 0, 398, 22152, 22721>>) >>

\* 12345, -1, "2^128", "2^80 + 12345", a boolean, "12x", "2^128 - 1"
PayloadSamples ==
    << VInt(UInt(12345, 4)),
       VInt(<<65535, 65535, 65535, 65535>>),
       VString(<<"3", "4", "0", "2", "8", "2", "3", "6", "6", "9", "2", "0", "9", "3", "8", "4", "6", "3", "4", "6", "3", "3", "7", "4", "6", "0", "7", "4", "3", "1", "7", "6", "8", "2", "1", "1", "4", "5", "6">>),
       VString(<<"1", "2", "0", "8", "9", "2", "5", "8", "1", "9", "6", "1", "4", "6", "2", "9", "1", "7", "4", "7", "1", "8", "5", "2", "0">>),
       VBool(TRUE),
       VString(<<"1", "2", "x">>),
       VString(<<"3", "4", "0", "2", "8", "2", "3", "6", "6", "9", "2", "0", "9", "3", "8", "4", "6", "3", "4", "6", "3", "3", "7", "4", "6", "0", "7", "4", "3", "1", "7", "6", "8", "2", "1", "1", "4", "5", "5">>) >>

\* "", "short", "ILLEGALCHARSxxxxxxxxxxxxxx", a ULID ending in U, a ULID in
\* lower case, 27 characters, 26 lower-case characters with i, l and o among
\* them, 26 Z, a ULID in upper case
TextSamples ==
    << <<>>,
       <<"s", "h", "o", "r", "t">>,
       <<"I", "L", "L", "E", "G", "A", "L", "C", "H", "A", "R", "S", "x", "x", "x", "x", "x", "x", "x", "x", "x", "x", "x", "x", "x", "x">>,
       <<"0", "1", "A", "R", "Z", "3", "N", "D", "E", "K", "T", "S", "V", "4", "R", "R", "F", "F", "Q", "6", "9", "G", "5", "F", "A", "U">>,
       <<"0", "1", "a", "r", "z", "3", "n", "d", "e", "k", "t", "s", "v", "4", "r", "r", "f", "f", "q", "6", "9", "g", "5", "f", "a", "v">>,
       <<"0", "1", "A", "R", "Z", "3", "N", "D", "E", "K", "T", "S", "V", "4", "R", "R", "F", "F", "Q", "6", "9", "G", "5", "F", "A", "V", "0">>,
       <<"0", "1", "2", "3", "4", "5", "6", "7", "8", "9", "a", "b", "c", "d", "e", "f", "g", "h", "i", "j", "k", "l", "m", "n", "o", "p">>,
       <<"Z", "Z", "Z", "Z", "Z", "Z", "Z", "Z", "Z", "Z", "Z", "Z", "Z", "Z", "Z", "Z", "Z", "Z", "Z", "Z", "Z", "Z", "Z", "Z", "Z", "Z">>,
       <<"0", "1", "A", "R", "Z", "3", "N", "D", "E", "K", "T", "S", "V", "4", "R", "R", "F", "F", "Q", "6", "9", "G", "5", "F", "A", "V">> >>

\* 1710848760123 ms, 1 ms, 2^48 + 1 ms
NowSamples ==
    << Millis(<<0, 0, 0, 0, 0, 398, 22152, 22843>>),
       Millis(UInt(1, 8)),
       Millis(<<0, 0, 0, 0, 1, 0, 0, 1>>) >>

RngSamples ==
    << [r16 |-> <<4660>>, r64 |-> <<1, 2, 3, 4>>],
       [r16 |-> <<0>>, r64 |-> <<0, 0, 0, 0>>],
       [r16 |-> <<65535>>, r64 |-> <<65535, 65535, 65535, 65535>>] >>

Count(samples, n) == IF n < Len(samples) THEN n ELSE Len(samples)

Take(samples, n) == {samples[i] : i \in 1..Count(samples, n)}

Times == Take(TimeSamples, NTimes)

Texts == Take(TextSamples, NTexts)

Nows == Take(NowSamples, NNow)

Rngs == Take(RngSamples, NRng)

\* the "timestamp" field of an input record: absent (0), a date, or a value
\* that is no date (one past the dates)
TimestampField(ti) ==
    IF ti = 0 THEN None(VNothing)
    ELSE IF ti > Count(TimeSamples, NTimes) THEN Some(VString(<<"n", "o", "w">>))
    ELSE Some(VDate(TimeSamples[ti]))

\* the "random" field of an input record: absent (0) or a payload sample
PayloadField(pi) == IF pi = 0 THEN None(VNothing) ELSE Some(PayloadSamples[pi])

\* the inputs of "random ulid": nothing, a date, a record with an optional
\* timestamp and an optional payload, a value of an unsupported type
RandomInput(shape) ==
    IF shape[1] = "nothing" THEN VNothing
    ELSE IF shape[1] = "date" THEN VDate(TimeSamples[shape[2]])
    ELSE IF shape[1] = "record" THEN VRecord(TimestampField(shape[2]), PayloadField(shape[3]))
    ELSE VInt(UInt(8, 4))

RandomInputs ==
    {<<"nothing", 0, 0>>, <<"int", 0, 0>>}
        \cup {<<"date", ti, 0>> : ti \in 1..Count(TimeSamples, NTimes)}
        \cup {<<"record", ti, pi>> : ti \in 0..(Count(TimeSamples, NTimes) + 1),
                                    pi \in 0..Count(PayloadSamples, NPayloads)}

---------------------------------------------------------------------------
(* The state machine.  The host runs the plugin once per command of a      *)
(* pipeline: the first command takes its input from the host, each later   *)
(* one takes what the command before it returned, and a command that fails *)
(* ends the pipeline.  stage counts the commands run, call is the last     *)
(* one and out what it returned; gen records the last call of generate     *)
(* (its arguments, what the clock and the random source gave it, the Ulid  *)
(* it returned and the text "random ulid" made of it); prev is the gen     *)
(* before it, kept by PairSpec only.                                       *)

NoGen == [called |-> FALSE, timestamp |-> None(UNIX_EPOCH), random |-> Random,
          now |-> UNIX_EPOCH, rng |-> RngSamples[1], ret |-> NotCalled, text |-> <<>>]

Init ==
    /\ stage = 0
    /\ call = [name |-> "", zeroed |-> FALSE, oned |-> FALSE, input |-> VNothing]
    /\ out = Ok(VNothing)
    /\ gen = NoGen
    /\ prev = NoGen

\* what the clock and the random source may give a call: only a call that
\* reads them sees more than one value
Clock(a) == IF a.tag = "Ok" /\ ~a.val.timestamp.some THEN Nows ELSE {NowSamples[1]}

Source(a) == IF a.tag = "Ok" /\ a.val.random.kind = "Random" THEN Rngs ELSE {RngSamples[1]}

GenOf(a, result, now, rng) ==
    IF a.tag # "Ok" THEN NoGen
    ELSE [called |-> TRUE, timestamp |-> a.val.timestamp, random |-> a.val.random,
          now |-> now, rng |-> rng,
          ret |-> generate(a.val.timestamp, a.val.random, now, rng),
          text |-> IF result.tag = "Ok" THEN result.val.val ELSE <<>>]

RandomUlidCall(zeroed, oned, input) ==
    LET a == RandomUlid_args(zeroed, oned, input)
    IN  \E now \in Clock(a), rng \in Source(a) :
            LET result == Plugin_run("random ulid", zeroed, oned, input, now, rng)
            IN  /\ call' = [name |-> "random ulid", zeroed |-> zeroed, oned |-> oned,
                            input |-> input]
                /\ out' = result
                /\ gen' = GenOf(a, result, now, rng)

\* a further command can run
Open == stage < MaxStages /\ (stage = 0 \/ out.tag = "Ok")

\* "random ulid", with any flags, on an input of the host or on the value in
\* the pipeline
RandomUlidRun ==
    /\ Open
    /\ \E zeroed \in BOOLEAN, oned \in BOOLEAN,
          shape \in (IF stage = 0 THEN RandomInputs ELSE {<<"pipe", 0, 0>>}) :
           RandomUlidCall(zeroed, oned, IF stage = 0 THEN RandomInput(shape) ELSE out.val)
    /\ stage' = stage + 1
    /\ UNCHANGED prev

\* "parse ulid" on a text of the host, on a value that is no string, or on
\* the value in the pipeline
ParseUlidRun ==
    /\ Open
    /\ \E i \in (IF stage = 0 THEN 0..Count(TextSamples, NTexts) ELSE {0}) :
           LET input == IF stage # 0 THEN out.val
                        ELSE IF i = 0 THEN VNothing ELSE VString(TextSamples[i])
           IN  /\ call' = [name |-> "parse ulid", zeroed |-> FALSE, oned |-> FALSE,
                           input |-> input]
               /\ out' = Plugin_run("parse ulid", FALSE, FALSE, input, NowSamples[1], RngSamples[1])
    /\ stage' = stage + 1
    /\ UNCHANGED <<gen, prev>>

\* a call under a name the plugin does not have
UnknownCommandRun ==
    /\ Open
    /\ LET input == IF stage = 0 THEN VNothing ELSE out.val
       IN  /\ call' = [name |-> "random uuid", zeroed |-> FALSE, oned |-> FALSE,
                       input |-> input]
           /\ out' = Plugin_run("random uuid", FALSE, FALSE, input, NowSamples[1], RngSamples[1])
    /\ stage' = stage + 1
    /\ UNCHANGED <<gen, prev>>

Next == RandomUlidRun \/ ParseUlidRun \/ UnknownCommandRun

Spec == Init /\ [][Next]_vars

\* two calls of generate side by side: "random ulid" run twice by the host,
\* each time on a supplied timestamp and a payload mode that reaches
\* generate; prev keeps the gen of the first run
PairInputs ==
    {<<"date", ti, 0>> : ti \in 1..Count(TimeSamples, NTimes)}
        \cup {<<"record", ti, pi>> :
                 ti \in 1..Count(TimeSamples, NTimes),
                 pi \in {q \in 1..Count(PayloadSamples, NPayloads) :
                            selected_randomness(FALSE, FALSE, Some(PayloadSamples[q])).tag = "Ok"}}

RandomUlidRunAgain ==
    /\ ~prev.called
    /\ \E zeroed \in BOOLEAN, oned \in BOOLEAN, shape \in PairInputs :
           /\ ~(zeroed /\ oned)
           /\ RandomUlidCall(zeroed, oned, RandomInput(shape))
    /\ prev' = gen
    /\ UNCHANGED stage

NextPair == RandomUlidRunAgain

PairSpec == Init /\ [][NextPair]_vars

---------------------------------------------------------------------------
(* Properties                                                              *)

ASCII == <<"+", "-", "0", "1", "2", "3", "4", "5", "6", "7", "8", "9", "A", "B", "C", "D", "E", "F", "G", "H", "I", "J", "K", "L", "M", "N", "O", "P", "Q", "R", "S", "T", "U", "V", "W", "X", "Y", "Z", "a", "b", "c", "d", "e", "f", "g", "h", "i", "j", "k", "l", "m", "n", "o", "p", "q", "r", "s", "t", "u", "v", "w", "x", "y", "z">>

Ord(c) == IndexOf(ASCII, c)

UpperCrockford == {"0", "1", "2", "3", "4", "5", "6", "7", "8", "9", "A", "B", "C", "D", "E", "F", "G", "H", "J", "K", "M", "N", "P", "Q", "R", "S", "T", "V", "W", "X", "Y", "Z"}

LowerCrockford == {"0", "1", "2", "3", "4", "5", "6", "7", "8", "9", "a", "b", "c", "d", "e", "f", "g", "h", "j", "k", "m", "n", "p", "q", "r", "s", "t", "v", "w", "x", "y", "z"}

DigitChars == {"0", "1", "2", "3", "4", "5", "6", "7", "8", "9"}

MaxDecimal == <<"3", "4", "0", "2", "8", "2", "3", "6", "6", "9", "2", "0", "9", "3", "8", "4", "6", "3", "4", "6", "3", "3", "7", "4", "6", "0", "7", "4", "3", "1", "7", "6", "8", "2", "1", "1", "4", "5", "5">>

OnesDecimal == <<"1", "2", "0", "8", "9", "2", "5", "8", "1", "9", "6", "1", "4", "6", "2", "9", "1", "7", "4", "7", "0", "6", "1", "7", "5">>

\* a < b for sequences of integers, lexicographically
LexLess(a, b) ==
    \/ \E i \in 1..Len(a) : /\ i <= Len(b)
                            /\ a[i] < b[i]
                            /\ \A j \in 1..(i - 1) : a[j] = b[j]
    \/ /\ Len(a) < Len(b)
       /\ \A j \in 1..Len(a) : a[j] = b[j]

\* s < t as Rust compares strings: byte by byte
StrLess(s, t) == LexLess([i \in 1..Len(s) |-> Ord(s[i])], [i \in 1..Len(t) |-> Ord(t[i])])

\* a is an earlier point in time than b
TimeLess(a, b) ==
    \/ a.before_epoch /\ ~b.before_epoch /\ ~(IsZero(a.millis) /\ IsZero(b.millis))
    \/ ~a.before_epoch /\ ~b.before_epoch /\ LexLess(a.millis, b.millis)
    \/ a.before_epoch /\ b.before_epoch /\ LexLess(b.millis, a.millis)

\* t is 0 .. 2^48 - 1 ms after the epoch
InRange(t) == ~t.before_epoch /\ \A i \in 1..5 : t.millis[i] = 0

\* the two fields of a 128-bit Ulid value
TimestampOf(u) == SubSeq(u, 1, 3)

PayloadOf(u) == SubSeq(u, 4, 8)

\* the time generate worked from
Resolved(g) == IF g.timestamp.some THEN g.timestamp.v ELSE g.now

AllChars(s, set) == \A i \in 1..Len(s) : s[i] \in set

RECURSIVE StripZeros(_)
StripZeros(s) == IF Len(s) > 1 /\ s[1] = "0" THEN StripZeros(Tail(s)) ELSE s

\* s is decimal text of a value above u128::MAX
ExceedsU128(s) ==
    /\ s # <<>>
    /\ AllChars(s, DigitChars)
    /\ \/ Len(StripZeros(s)) > Len(MaxDecimal)
       \/ Len(StripZeros(s)) = Len(MaxDecimal) /\ StrLess(MaxDecimal, StripZeros(s))

AfterRandom == call.name = "random ulid"

AfterParse == call.name = "parse ulid"

\* "parse ulid" has just run on the text the last "random ulid" returned
AfterPipedParse ==
    /\ AfterParse
    /\ gen.called
    /\ gen.text # <<>>
    /\ call.input.type = "string"
    /\ call.input.val = gen.text

\* an input "random ulid" takes a timestamp and a payload mode from
Supported(input) ==
    \/ input.type \in {"nothing", "date"}
    \/ /\ input.type = "record"
       /\ ~input.val.timestamp.some \/ input.val.timestamp.v.type = "date"

HasPayload(input) == input.type = "record" /\ input.val.random.some

\* C1: parsing the text that "random ulid" made of a Ulid u succeeds and
\* yields u's timestamp and u's payload.
C1_RoundTrip ==
    AfterPipedParse =>
        /\ out.tag = "Ok"
        /\ out.val.val.timestamp.v.val =
               [before_epoch |-> FALSE, millis |-> <<0, 0, 0, 0, 0>> \o TimestampOf(gen.ret.val)]
        /\ parse_u128(out.val.val.random.v.val) = Ok(<<0, 0, 0>> \o PayloadOf(gen.ret.val))

C1_Witness ==
    /\ AfterPipedParse
    /\ out.tag = "Ok"
    /\ gen.random.kind = "Random"
    /\ ~IsZero(TimestampOf(gen.ret.val))
    /\ ~IsZero(PayloadOf(gen.ret.val))

C3_GenerateTotal == gen.called => gen.ret.tag = "Ok"

\* C4 as stated: for the same supplied timestamp, generate with Random and
\* generate with any other mode both return, and the first 10 characters of
\* the two texts are equal.
C4_PrefixIndependent ==
    (/\ prev.called /\ gen.called
     /\ prev.timestamp = gen.timestamp
     /\ prev.random.kind = "Random" /\ gen.random.kind # "Random")
        => /\ prev.ret.tag = "Ok" /\ gen.ret.tag = "Ok"
           /\ SubSeq(prev.text, 1, 10) = SubSeq(gen.text, 1, 10)

\* C5: the Ulid generate returns with Zeros has payload 0 and with Ones has
\* payload 2^80 - 1, its timestamp field being the low 48 bits of the
\* milliseconds in both cases; split shows the payloads as "0" and
\* "1208925819614629174706175".
C5_Padding ==
    /\ (gen.called /\ gen.ret.tag = "Ok" /\ gen.random.kind = "Zeros") =>
           /\ PayloadOf(gen.ret.val) = <<0, 0, 0, 0, 0>>
           /\ TimestampOf(gen.ret.val) = SubSeq(Resolved(gen).millis, 6, 8)
    /\ (gen.called /\ gen.ret.tag = "Ok" /\ gen.random.kind = "Ones") =>
           /\ PayloadOf(gen.ret.val) = <<65535, 65535, 65535, 65535, 65535>>
           /\ TimestampOf(gen.ret.val) = SubSeq(Resolved(gen).millis, 6, 8)
    /\ (AfterPipedParse /\ gen.random.kind = "Zeros") =>
           out.tag = "Ok" /\ out.val.val.random.v.val = <<"0">>
    /\ (AfterPipedParse /\ gen.random.kind = "Ones") =>
           out.tag = "Ok" /\ out.val.val.random.v.val = OnesDecimal

C5_Witness ==
    /\ AfterPipedParse
    /\ gen.random.kind = "Ones"
    /\ ~IsZero(SubSeq(Resolved(gen).millis, 6, 8))
    /\ TimestampOf(gen.ret.val) # <<65535, 65535, 65535>>
    /\ out.val.val.random.v.val = OnesDecimal

\* C6: the Ulid generate returns for t ms and Fixed(v) is
\* ((t mod 2^48) << 80) | (v mod 2^80), v being the cast of the integer when
\* the payload was one; split shows Fixed(12345) as "12345".
C6_FieldWidth ==
    /\ (gen.called /\ gen.ret.tag = "Ok" /\ gen.random.kind = "Set") =>
           gen.ret.val = SubSeq(Resolved(gen).millis, 6, 8) \o SubSeq(gen.random.val, 4, 8)
    /\ (AfterRandom /\ gen.called /\ gen.random.kind = "Set"
            /\ HasPayload(call.input) /\ call.input.val.random.v.type = "int") =>
           /\ SubSeq(gen.random.val, 5, 8) = call.input.val.random.v.val
           /\ \A i \in 1..4 : gen.random.val[i] =
                  (IF call.input.val.random.v.val[1] >= 32768 THEN 65535 ELSE 0)
    /\ (AfterPipedParse /\ gen.random.kind = "Set") =>
           /\ out.tag = "Ok"
           /\ parse_u128(out.val.val.random.v.val) = Ok(<<0, 0, 0>> \o SubSeq(gen.random.val, 4, 8))
    /\ (AfterPipedParse /\ gen.random = Set(UInt(12345, 8))) =>
           out.val.val.random.v.val = <<"1", "2", "3", "4", "5">>

C6_Witness ==
    /\ AfterPipedParse
    /\ gen.random.kind = "Set"
    /\ gen.random.val[1] = 65535
    /\ Resolved(gen).millis[5] # 0
    /\ out.val.val.random.v.val = OnesDecimal

\* C7: "parse ulid" on a string that is not 26 characters long, or that has
\* a character outside the Crockford alphabet (I, L, O and U are outside),
\* returns an error and no record; it does not abort.
C7_RejectsMalformed ==
    (/\ AfterParse
     /\ call.input.type = "string"
     /\ \/ Len(call.input.val) # 26
        \/ ~AllChars(call.input.val, UpperCrockford \cup LowerCrockford))
        => /\ out.tag = "Err"
           /\ out.label = "Failed to parse ulid"
           /\ out.val = <<>>

C7_Witness ==
    /\ AfterParse
    /\ call.input.type = "string"
    /\ Len(call.input.val) = 26
    /\ call.input.val[1] = "I"
    /\ out.tag = "Err"

\* C8: the text "random ulid" returns has 26 characters, each one of the
\* 32 upper-case Crockford symbols, and a zero timestamp or payload shows
\* as a group of "0" characters of full length.
C8_FormatShape ==
    (AfterRandom /\ out.tag = "Ok") =>
        /\ out.val.type = "string"
        /\ Len(out.val.val) = 26
        /\ AllChars(out.val.val, UpperCrockford)
        /\ IsZero(TimestampOf(gen.ret.val)) => AllChars(SubSeq(out.val.val, 1, 10), {"0"})
        /\ IsZero(PayloadOf(gen.ret.val)) => AllChars(SubSeq(out.val.val, 11, 26), {"0"})

C8_Witness ==
    /\ AfterRandom
    /\ out.tag = "Ok"
    /\ IsZero(gen.ret.val)
    /\ Len(out.val.val) = 26
    /\ AllChars(out.val.val, {"0"})

\* what C9 says of the flags and the payload on an input that has a
\* timestamp and a payload mode to give
C9_Modes ==
    /\ (call.zeroed /\ ~call.oned) => gen.called /\ gen.random = Zeros
    /\ (~call.zeroed /\ call.oned) => gen.called /\ gen.random = Ones
    /\ (~call.zeroed /\ ~call.oned /\ ~HasPayload(call.input)) =>
           gen.called /\ gen.random = Random
    /\ (~call.zeroed /\ ~call.oned /\ HasPayload(call.input)) =>
           \/ gen.called /\ gen.random.kind = "Set"
           \/ out.tag = "Err" /\ out.label = "Invalid number" /\ ~gen.called
    /\ (~call.zeroed /\ ~call.oned /\ HasPayload(call.input)
            /\ call.input.val.random.v.type = "int") =>
           gen.called /\ gen.random = Set(i64_as_u128(call.input.val.random.v.val))

\* C9 as stated: with both flags the call fails with the flag error and
\* makes no Ulid, whatever the input; with one flag the mode is Zeros or
\* Ones even over a payload; with none it is Random or Fixed(payload).
C9_Original ==
    AfterRandom =>
        /\ (call.zeroed /\ call.oned) =>
               out.tag = "Err" /\ out.label = "Flag error" /\ ~gen.called
        /\ Supported(call.input) => C9_Modes

\* C9 amended: with both flags the call fails and makes no Ulid, whatever
\* the input, and the failure is the flag error when the input is nothing, a
\* date, or a record whose timestamp field, if any, is a date; the rest as
\* stated.
C9_ModeSelection ==
    AfterRandom =>
        /\ (call.zeroed /\ call.oned) =>
               /\ out.tag = "Err" /\ ~gen.called
               /\ Supported(call.input) <=> out.label = "Flag error"
        /\ Supported(call.input) => C9_Modes

C9_Witness ==
    /\ AfterRandom
    /\ call.zeroed /\ call.oned
    /\ HasPayload(call.input)
    /\ Supported(call.input)
    /\ out.label = "Flag error"

\* the payload of the call's input is decimal text, given with no flag
DecimalPayload ==
    /\ AfterRandom
    /\ ~call.zeroed /\ ~call.oned
    /\ Supported(call.input)
    /\ HasPayload(call.input)
    /\ call.input.val.random.v.type = "string"
    /\ call.input.val.random.v.val # <<>>
    /\ AllChars(call.input.val.random.v.val, DigitChars)

\* C10 as stated: a payload given as decimal text above the u128 range is
\* truncated and a ULID is still produced.
C10_Original ==
    (DecimalPayload /\ ExceedsU128(call.input.val.random.v.val)) =>
        out.tag = "Ok" /\ gen.called

\* C10 amended: a payload given as decimal text above the u128 range fails
\* the call with "Invalid number" and no ULID is made; decimal text within
\* the range is taken whole and generate keeps its low 80 bits.
C10_Rejects ==
    /\ (DecimalPayload /\ ExceedsU128(call.input.val.random.v.val)) =>
           out.tag = "Err" /\ out.label = "Invalid number" /\ ~gen.called
    /\ (DecimalPayload /\ ~ExceedsU128(call.input.val.random.v.val)) =>
           /\ gen.called /\ gen.random.kind = "Set"
           /\ u128_to_string(gen.random.val) = StripZeros(call.input.val.random.v.val)
           /\ gen.ret.tag = "Ok" =>
                  /\ out.tag = "Ok"
                  /\ PayloadOf(gen.ret.val) = SubSeq(gen.random.val, 4, 8)

C10_Witness ==
    /\ DecimalPayload
    /\ ExceedsU128(call.input.val.random.v.val)
    /\ out.label = "Invalid number"

====
